---- MODULE Spec2Model ----
(***************************************************************************)
(* Model of the trace agent's Concentrator (agent/concentrator.go) and of  *)
(* the sampler Backend that lives in the same source file.                 *)
(*                                                                         *)
(* Time is counted in scaled units: int64 nanoseconds become Width-bit     *)
(* two's complement integers, so that the wrap-around of `end + cutoff`    *)
(* is reachable, and the configuration values (bucket interval, cutoff)    *)
(* are a few units wide.                                                   *)
(***************************************************************************)
EXTENDS Integers, Sequences, FiniteSets, TLC

VARIABLES
    conf,       \* c.conf: BucketInterval, OldestSpanCutoff, DefaultEnv
    now,        \* the clock read by model.Now()
    buckets,    \* c.buckets: bucket timestamp -> StatsBucket
    fpc,        \* a thread calling Flush(): "idle", or "lock" once it has read the clock
    fnow,       \* the local `now` of that Flush call
    last,       \* history: the call the last step completed: inputs, result, pre-state
    emitted,    \* history: bucket timestamps returned by Flush calls so far
    nOut,       \* history: number of spans in the buckets returned by Flush calls so far
    nSpans,     \* history: number of spans HandleNewSpan has accepted
    inq,        \* c.in: the traces sent and not yet received
    inClosed,   \* c.in has been closed
    rpc,        \* Run(): "recv" at the range, "span" in the loop over the trace,
                \* "send" blocked on c.out <- ..., "done" after close(c.out)
    rtrace,     \* Run's trace t
    renv,       \* Run's env
    ri,         \* Run's index into t
    pending,    \* the value Run is sending on c.out
    outClosed,  \* c.out has been closed
    outLog,     \* history: the batches received from c.out, in order
    recvLog,    \* history: the traces Run has received, in order
    flushLog,   \* history: the results of the Flush calls Run has made, in order
    nCalls,     \* history: number of HandleNewSpan calls Run has made
    nCloses,    \* history: number of close(c.out) executed
    nSent,      \* history: number of spans sent on c.in in ordinary traces
    scores,     \* b.scores: signature -> score
    totalScore,     \* b.totalScore
    sampledScore,   \* b.sampledScore
    decays,     \* history: number of DecayScore calls made
    nCounts,    \* history: number of CountSignature and CountSample calls made
    bop,        \* history: the Backend method the last step called
    epochs,     \* history: per signature, the values of decays at its CountSignature calls
    exitClosed, \* b.exit has been closed
    panicked,   \* a goroutine has panicked: the process is gone
    bpc,        \* Backend.Run(): "new" before it is entered, "select" blocked in the
                \* select, "decay" about to call DecayScore, "returned"
    tickC,      \* number of ticks waiting in t.C (a channel of capacity 1)
    nTicks,     \* history: number of ticks the ticker has put in t.C
    mu,         \* b.mu: the thread that holds it, or "none"
    dpc,        \* a thread in DecayScore: "idle", "loop" in the range over b.scores,
                \* "total" before b.totalScore /= ..., all but "idle" under b.mu
    dkeys,      \* the keys its range has not visited yet
    cpc,        \* a thread in CountSignature or CountSample: "idle", "score" before
                \* b.scores[signature]++, "total" before b.totalScore++, "sample"
                \* before b.sampledScore++
    csig,       \* the signature it counts
    gpc,        \* a thread in a getter: "idle", or "read" under b.mu
    gsel,       \* the getter it calls
    gres,       \* history: the last result of that getter since the last decay
    whole,      \* history: the scores as the calls completed so far leave them,
                \* each call applied as a whole when it unlocks
    lock,       \* c.lock: the thread that holds it, or "none"
    hpc,        \* a thread other than Run in HandleNewSpan: "idle", "wait" in
                \* c.lock.Lock(), "held" with the lock, "new" once the bucket is
                \* in the map and before b.HandleSpan
    hspan,      \* the span it was called with
    rfnow,      \* the local `now` of the Flush call Run makes
    nExt,       \* history: number of HandleNewSpan calls of that other thread
    tr,         \* the trace handed to the sublayer engine
    sublayers,  \* the values ComputeSublayers returned for it
    spc         \* the caller of the sublayer engine: "none", "trace" with a trace,
                \* "computed" after ComputeSublayers, "set" after SetSublayersOnSpan

concVars == <<conf, now, buckets, fpc, fnow, last, emitted, nOut, nSpans>>

runVars == <<inq, inClosed, rpc, rtrace, renv, ri, pending, outClosed, outLog,
             recvLog, flushLog, nCalls, nCloses, nSent>>

backVars == <<scores, totalScore, sampledScore, decays, nCounts, bop, epochs>>

lifeVars == <<exitClosed, panicked, bpc, tickC, nTicks>>

muVars == <<mu, dpc, dkeys, cpc, csig, gpc, gsel, gres, whole>>

lockVars == <<lock, hpc, hspan, rfnow, nExt>>

subVars == <<tr, sublayers, spc>>

moreVars == <<lifeVars, muVars, lockVars, subVars>>

vars == <<concVars, runVars, backVars, moreVars>>

----------------------------------------------------------------------------
(* Bounds of the model *)

\* width of the scaled int64
Width == 6
\* the clock starts at Now0, later than any cutoff, and is stopped at MaxNow
Now0 == 5
MaxNow == 10
\* span ends offered to HandleNewSpan lie at most MaxLate before the clock...
MaxLate == 4
\* ...and at most MaxAhead after it (plus the extreme values of the type)
MaxAhead == 0
\* number of spans HandleNewSpan accepts
MaxSpans == 3
\* capacity of the input channel
InCap == 2
\* number of traces sent on the input channel
MaxTraces == 3
\* number of clock ticks while Run runs
RunTicks == 2
\* number of DecayScore calls
MaxDecays == 42
\* number of CountSignature and CountSample calls
MaxCounts == 3
\* the counts arrive in the first and in the last CountWindow decay periods
CountWindow == 2
\* number of ticks the ticker of Backend.Run delivers
MaxTicks == 3
\* with the lock modelled: number of traces sent to Run and of HandleNewSpan
\* calls of another thread
LkTraces == 2
MaxExt == 1
\* with the lock modelled: number of clock ticks
LkTicks == 1
\* the duration of the root span of the small traces of the sublayer engine
SubDur == 4
\* the steady feed: at most MaxRate counts of a signature per decay period,
\* for SteadyPeriods periods, among MaxSamples calls of CountSample
MaxRate == 2
SteadyPeriods == 20
MaxSamples == 1
\* number of DecayScore calls and of count calls of the concurrent threads
MuDecays == 2
MuCounts == 3
----------------------------------------------------------------------------
(* int64 arithmetic *)

MinInt64 == -(2 ^ (Width - 1))
MaxInt64 == (2 ^ (Width - 1)) - 1
Int64 == MinInt64..MaxInt64

\* Go's integer addition and subtraction wrap around
Wrap(x) == ((x - MinInt64) % (2 ^ Width)) + MinInt64

\* Go's % truncates toward zero: the result has the sign of the dividend
GoRem(a, b) == IF a >= 0 THEN a % b ELSE -((-a) % b)

----------------------------------------------------------------------------
(* Exact arithmetic for the scores.  A natural number is the sequence of its
   digits in base Base, lowest first, without leading zeros (0 is << >>).    *)

Base == 10 ^ 4

RECURSIVE BFromInt(_)
BFromInt(x) == IF x = 0 THEN << >> ELSE <<x % Base>> \o BFromInt(x \div Base)

\* Each operator takes an argument through a bound variable, as in
\* Only({e(a) : a \in {x}}): x is evaluated once, before e.

\* the element of the set S of one element
Only(S) == CHOOSE r \in S : TRUE

\* the function f on 1..n as the sequence of its values
AsSeq(f) == SubSeq(f, 1, Len(f))

\* the largest element of the non-empty set S of numbers
Largest(S) == CHOOSE i \in S : \A j \in S : j <= i

\* digit i of a, 0 above its top digit
Digit(a, i) == IF i <= Len(a) THEN a[i] ELSE 0

\* the digits q without the zeros at their top
BStrip(q) ==
    Only({ Only({ IF nz = {} THEN << >> ELSE SubSeq(t, 1, Largest(nz)) :
                    nz \in {{i \in 1..Len(t) : t[i] # 0}} }) :
             t \in {AsSeq(q)} })

\* the carry into position i of the sums s of two digits: a position below
\* i overflows and every position between the two is full
CarryInto(s, i) ==
    IF \E j \in 1..(i - 1) : s[j] >= Base /\ \A l \in (j + 1)..(i - 1) : s[l] = Base - 1
    THEN 1 ELSE 0

\* the number whose position i holds s[i], a sum of two digits
Summed(s) == BStrip([i \in 1..(Len(s) + 1) |-> (Digit(s, i) + CarryInto(s, i)) % Base])

\* a + b
BAdd(x, y) ==
    Only({ Only({ Summed(s) :
                    s \in {AsSeq([i \in 1..(IF Len(a) > Len(b) THEN Len(a) ELSE Len(b)) |->
                                    Digit(a, i) + Digit(b, i)])} }) :
             a \in {AsSeq(x)}, b \in {AsSeq(y)} })

\* a times the small number m (m <= Base): the low parts of the products
\* of the digits, plus their high parts one position up
BMulSmall(x, m) ==
    Only({ BAdd([i \in 1..Len(a) |-> (a[i] * m) % Base],
                <<0>> \o [i \in 1..Len(a) |-> (a[i] * m) \div Base]) :
             a \in {AsSeq(x)} })

RECURSIVE ColumnSum(_, _, _, _, _)
\* the sum of the products a[i] * b[k + 1 - i] for the i of lo..hi
ColumnSum(a, b, k, lo, hi) ==
    IF lo > hi THEN 0
    ELSE IF lo = hi THEN a[lo] * b[k + 1 - lo]
    ELSE ColumnSum(a, b, k, lo, (lo + hi) \div 2)
            + ColumnSum(a, b, k, ((lo + hi) \div 2) + 1, hi)

\* the number whose position k holds c[k], a number below Base^3
Carried(c) ==
    Only({ BAdd(BAdd([k \in 1..Len(col) |-> col[k] % Base],
                     <<0>> \o [k \in 1..Len(col) |-> (col[k] \div Base) % Base]),
                <<0, 0>> \o [k \in 1..Len(col) |-> col[k] \div (Base * Base)]) :
             col \in {AsSeq(c)} })

\* a times b (one of them of fewer than 22 digits): position k holds the
\* products of the digits of a and b whose positions add up to k + 1
BMul(x, y) ==
    Only({ IF a = << >> \/ b = << >> THEN << >>
           ELSE Carried([k \in 1..(Len(a) + Len(b) - 1) |->
                           ColumnSum(a, b, k,
                                     IF k + 1 - Len(b) > 1 THEN k + 1 - Len(b) ELSE 1,
                                     IF k < Len(a) THEN k ELSE Len(a))]) :
             a \in {AsSeq(x)}, b \in {AsSeq(y)} })

RECURSIVE BTimesPow(_, _, _)
\* a times m^j (m^4 <= Base), j taken by halves
BTimesPow(a, m, j) ==
    IF j = 0 THEN a
    ELSE IF j <= 4 THEN BMulSmall(a, m ^ j)
    ELSE Only({ BTimesPow(h, m, j - (j \div 2)) : h \in {BTimesPow(a, m, j \div 2)} })

BLess(x, y) ==
    Only({ IF Len(a) # Len(b) THEN Len(a) < Len(b)
           ELSE \E i \in 1..Len(a) : a[i] < b[i] /\ \A j \in (i + 1)..Len(a) : a[j] = b[j] :
             a \in {AsSeq(x)}, b \in {AsSeq(y)} })

BLeq(a, b) == ~BLess(b, a)

RECURSIVE BasePowRem(_, _)
\* the remainder of Base^e by the small number d
BasePowRem(e, d) ==
    IF e = 0 THEN 1 % d
    ELSE IF e = 1 THEN Base % d
    ELSE (BasePowRem(e \div 2, d) * BasePowRem(e - (e \div 2), d)) % d

RECURSIVE BRemRange(_, _, _, _)
\* the remainder by the small number d of the number the digits lo..hi of a make
BRemRange(a, lo, hi, d) ==
    IF lo > hi THEN 0
    ELSE IF lo = hi THEN a[lo] % d
    ELSE (BRemRange(a, lo, (lo + hi) \div 2, d)
            + BasePowRem(((lo + hi) \div 2) - lo + 1, d)
                * BRemRange(a, ((lo + hi) \div 2) + 1, hi, d)) % d

\* the remainder of a by the small number d
BRem(x, d) == Only({ BRemRange(a, 1, Len(a), d) : a \in {AsSeq(x)} })

\* the quotient of a by the small number d: a long division, the
\* remainder carried into a digit being that of the digits above it
BDivSmall(x, d) ==
    Only({ BStrip([i \in 1..Len(a) |->
                     (BRemRange(a, i + 1, Len(a), d) * Base + a[i]) \div d]) :
             a \in {AsSeq(x)} })

----------------------------------------------------------------------------
(* float64 scores, taken as exact numbers.  Every score is a sum of powers
   of 1 / decayFactor = DecayDen / DecayNum, and is kept as n / DecayNum^k
   in lowest terms.                                                         *)

\* decayFactor := 1.125 // 9/8
DecayNum == 9
DecayDen == 8

\* minSignatureScoreOffset = 0.01
MinOffsetNum == 1
MinOffsetDen == 100

\* decayPeriod, in seconds
DecayPeriodSeconds == 1

Zero == [n |-> << >>, k |-> 0]
One == [n |-> <<1>>, k |-> 0]

RECURSIVE RNorm(_)
RNorm(x) ==
    Only({ IF v.n = << >> THEN Zero
           ELSE IF v.k > 0 /\ BRem(v.n, DecayNum) = 0
                THEN RNorm([n |-> BDivSmall(v.n, DecayNum), k |-> v.k - 1])
                ELSE v :
             v \in {x} })

RAdd(x, y) ==
    Only({ LET K == IF a.k > b.k THEN a.k ELSE b.k
           IN  RNorm([n |-> BAdd(BTimesPow(a.n, DecayNum, K - a.k),
                                 BTimesPow(b.n, DecayNum, K - b.k)),
                      k |-> K]) :
             a \in {x}, b \in {y} })

\* v times the small number m
RTimes(v, m) == RNorm([n |-> BMulSmall(v.n, m), k |-> v.k])

\* v / decayFactor
RDivF(v) == RNorm([n |-> BMulSmall(v.n, DecayDen), k |-> v.k + 1])

\* a <= b
RLeq(a, b) ==
    LET K == IF a.k > b.k THEN a.k ELSE b.k
    IN  BLeq(BTimesPow(a.n, DecayNum, K - a.k), BTimesPow(b.n, DecayNum, K - b.k))

\* a <= b for the fractions num / den
FracLeq(a, b) == BLeq(BMul(a.num, b.den), BMul(b.num, a.den))

FracEq(a, b) == BMul(a.num, b.den) = BMul(b.num, a.den)

\* v <= p / q, for small numbers p and q
RLeqFrac(v, p, q) ==
    BLeq(BMulSmall(v.n, q), BTimesPow(BFromInt(p), DecayNum, v.k))

----------------------------------------------------------------------------
(* Configuration and inputs *)

\* the agent configurations the model runs under (conf.BucketInterval,
\* conf.OldestSpanCutoff, conf.DefaultEnv): a cutoff longer than a bucket
\* and a cutoff shorter than a bucket
Configs ==
    { [BucketInterval |-> 2, OldestSpanCutoff |-> 3, DefaultEnv |-> "none"],
      [BucketInterval |-> 3, OldestSpanCutoff |-> 1, DefaultEnv |-> "none"] }

Envs == {"prod"}

\* the signatures of the traces counted by the sampler
Signatures == {11, 22}

\* the span ends offered at clock value n: a window around n and the
\* extreme values of the type
EndInputs(n) ==
    ((n - MaxLate)..(n + MaxAhead))
        \cup {MinInt64, MaxInt64 - conf.OldestSpanCutoff, MaxInt64}

----------------------------------------------------------------------------
(* model.StatsBucket *)

NewStatsBucket(ts, d) == [Start |-> ts, Duration |-> d, Hits |-> << >>]

\* b.HandleSpan(s, env, aggregators): the span is added to the bucket's aggregates
\* (Hits: how many spans of each end and env it has counted)
StatsBucketHandleSpan(b, s, env) ==
    LET k == <<s.End, env>>
    IN  [b EXCEPT !.Hits = [x \in DOMAIN @ \cup {k} |->
                               IF x \in DOMAIN @
                               THEN (IF x = k THEN @[x] + 1 ELSE @[x])
                               ELSE 1]]

RECURSIVE HitsOf(_)
\* the number of spans the bucket b has counted
HitsOf(b) ==
    IF DOMAIN b.Hits = {} THEN 0
    ELSE LET k == CHOOSE x \in DOMAIN b.Hits : TRUE
         IN  b.Hits[k] + HitsOf([b EXCEPT !.Hits = [x \in DOMAIN @ \ {k} |-> @[x]]])

RECURSIVE TotalHits(_)
\* the number of spans the buckets of the map bs have counted
TotalHits(bs) ==
    IF DOMAIN bs = {} THEN 0
    ELSE LET ts == CHOOSE x \in DOMAIN bs : TRUE
         IN  HitsOf(bs[ts]) + TotalHits([x \in DOMAIN bs \ {ts} |-> bs[x]])

RECURSIVE HitsIn(_)
\* the number of spans the buckets of the list sb have counted
HitsIn(sb) == IF sb = << >> THEN 0 ELSE HitsOf(Head(sb)) + HitsIn(Tail(sb))

----------------------------------------------------------------------------
(* Concentrator *)

\* a rounding that goes up to the next bucket instead of down
roundToBucketUp(ts) ==
    Wrap(Wrap(ts - GoRem(ts, conf.BucketInterval)) + conf.BucketInterval)

roundToBucket(ts) == Wrap(ts - GoRem(ts, conf.BucketInterval))

\* the lateness test of HandleNewSpan: now > end + c.conf.OldestSpanCutoff
IsLate(n, end) == n > Wrap(end + conf.OldestSpanCutoff)

NoCall == [op |-> "none", err |-> FALSE, end |-> 0, now |-> 0,
           pre |-> << >>, sb |-> << >>, again |-> {}]

\* the bucket map after an accepted span
PutSpan(bs, s, env) ==
    LET bucketTs == roundToBucket(s.End)
        b == IF bucketTs \in DOMAIN bs
             THEN bs[bucketTs]
             ELSE NewStatsBucket(bucketTs, conf.BucketInterval)
    IN  [ts \in DOMAIN bs \cup {bucketTs} |->
            IF ts = bucketTs THEN StatsBucketHandleSpan(b, s, env) ELSE bs[ts]]

HandleNewSpan(s, env) ==
    /\ IF IsLate(now, s.End)
       THEN /\ buckets' = buckets
            /\ nSpans' = nSpans
            /\ last' = [NoCall EXCEPT !.op = "HandleNewSpan", !.err = TRUE,
                            !.end = s.End, !.now = now, !.pre = buckets]
       ELSE /\ nSpans < MaxSpans
            /\ nSpans' = nSpans + 1
            /\ buckets' = PutSpan(buckets, s, env)
            /\ last' = [NoCall EXCEPT !.op = "HandleNewSpan", !.err = FALSE,
                            !.end = s.End, !.now = now, !.pre = buckets]

\* sequences that enumerate the set S once each, in any order
Orders(S) ==
    {q \in [1..Cardinality(S) -> S] : \A i, j \in 1..Cardinality(S) : q[i] = q[j] => i = j}

RECURSIVE InsertSorted(_, _)
InsertSorted(q, k) ==
    IF q = << >> THEN <<k>>
    ELSE IF k < Head(q) THEN <<k>> \o q
    ELSE <<Head(q)>> \o InsertSorted(Tail(q), k)

\* the keys left in the order the map iteration gave them
sortInts64Skipped(a) == a

RECURSIVE sortInts64(_)
sortInts64(a) ==
    IF a = << >> THEN << >>
    ELSE InsertSorted(sortInts64(Tail(a)), Head(a))

\* the test of Flush without the comparison to the live bucket
ExpiredCutoffOnly(ts, n) == ts < Wrap(n - conf.OldestSpanCutoff)

\* the test of Flush on one bucket timestamp, with the clock value n read on entry
Expired(ts, n) ==
    /\ ts < Wrap(n - conf.OldestSpanCutoff)
    /\ ts < roundToBucket(n)

RECURSIVE FlushLoop(_, _, _)
\* the loop of Flush over the sorted keys: the list sb it builds
FlushLoop(bs, keys, n) ==
    IF keys = << >> THEN << >>
    ELSE IF Expired(Head(keys), n)
         THEN <<bs[Head(keys)]>> \o FlushLoop(bs, Tail(keys), n)
         ELSE FlushLoop(bs, Tail(keys), n)

\* a Flush that returns the buckets and leaves them in the map
FlushKeepAll(bs, n) == bs

\* the bucket map the loop of Flush leaves
FlushKeep(bs, n) ==
    [ts \in {t \in DOMAIN bs : ~Expired(t, n)} |-> bs[ts]]

Starts(sb) == {sb[i].Start : i \in 1..Len(sb)}

\* Flush reads the clock before it takes the lock
FlushEnter ==
    /\ fpc = "idle"
    /\ fpc' = "lock"
    /\ fnow' = now
    /\ last' = NoCall
    /\ UNCHANGED <<conf, now, buckets, emitted, nOut, nSpans, runVars,
                   backVars, moreVars>>

\* the body of Flush under the lock, with the clock value n read on entry;
\* the range over the map gives the keys in any order
FlushBody(n, order) ==
    LET keys == sortInts64(order)
        sb == FlushLoop(buckets, keys, n)
    IN  /\ buckets' = FlushKeep(buckets, n)
        /\ last' = [NoCall EXCEPT !.op = "Flush", !.now = n,
                        !.pre = buckets, !.sb = sb,
                        !.again = Starts(sb) \cap emitted]
        /\ emitted' = emitted \cup Starts(sb)
        /\ nOut' = nOut + HitsIn(sb)

Flush ==
    /\ fpc = "lock"
    /\ \E order \in Orders(DOMAIN buckets) : FlushBody(fnow, order)
    /\ fpc' = "idle"
    /\ fnow' = 0
    /\ UNCHANGED <<conf, now, nSpans, runVars,
                   backVars, moreVars>>

\* the clock never goes back
Tick ==
    /\ now < MaxNow
    /\ now' = now + 1
    /\ last' = NoCall
    /\ UNCHANGED <<conf, buckets, fpc, fnow, emitted, nOut, nSpans, runVars,
                   backVars, moreVars>>

Span(end, env) == [End |-> end, Marker |-> FALSE, Env |-> env]

CallHandleNewSpan ==
    /\ \E end \in EndInputs(now) \cap Int64, env \in Envs :
          HandleNewSpan(Span(end, env), env)
    /\ UNCHANGED <<conf, now, fpc, fnow, emitted, nOut, runVars,
                   backVars, moreVars>>

Init ==
    /\ conf \in Configs
    /\ now = Now0
    /\ buckets = << >>
    /\ fpc = "idle"
    /\ fnow = 0
    /\ last = NoCall
    /\ emitted = {}
    /\ nOut = 0
    /\ nSpans = 0
    /\ inq = << >>
    /\ inClosed = FALSE
    /\ rpc = "recv"
    /\ rtrace = << >>
    /\ renv = ""
    /\ ri = 0
    /\ pending = << >>
    /\ outClosed = FALSE
    /\ outLog = << >>
    /\ recvLog = << >>
    /\ flushLog = << >>
    /\ nCalls = 0
    /\ nCloses = 0
    /\ nSent = 0
    /\ scores = << >>
    /\ totalScore = Zero
    /\ sampledScore = Zero
    /\ decays = 0
    /\ nCounts = 0
    /\ bop = "none"
    /\ epochs = [s \in Signatures |-> << >>]
    /\ exitClosed = FALSE
    /\ panicked = FALSE
    /\ bpc = "new"
    /\ tickC = 0
    /\ nTicks = 0
    /\ mu = "none"
    /\ dpc = "idle"
    /\ dkeys = {}
    /\ cpc = "idle"
    /\ csig = 0
    /\ gpc = "idle"
    /\ gsel = [name |-> "none", sig |-> 0]
    /\ gres = [set |-> FALSE, val |-> 0]
    /\ whole = [scores |-> << >>, totalScore |-> Zero, sampledScore |-> Zero]
    /\ lock = "none"
    /\ hpc = "idle"
    /\ hspan = Span(0, "")
    /\ rfnow = 0
    /\ nExt = 0
    /\ tr = << >>
    /\ sublayers = {}
    /\ spc = "none"

Next ==
    \/ Tick
    \/ CallHandleNewSpan
    \/ FlushEnter
    \/ Flush

Spec == Init /\ [][Next]_vars

----------------------------------------------------------------------------
(* Claims about HandleNewSpan and Flush *)

Accepted == last.op = "HandleNewSpan" /\ ~last.err
Flushed == last.op = "Flush"

\* C1: HandleNewSpan fails exactly when now - span.End > oldest_span_cutoff
\* (now read at the call), and a failed call leaves the bucket map as it was.
C1_LateExactly ==
    last.op = "HandleNewSpan" =>
        /\ last.err <=> (last.now - last.end > conf.OldestSpanCutoff)
        /\ last.err => buckets = last.pre

\* the floor of ts to a multiple of the bucket interval
BucketFloor(ts) == (ts \div conf.BucketInterval) * conf.BucketInterval

SpanEnds(b) == {k[1] : k \in DOMAIN b.Hits}

Contains(b) ==
    /\ b.Start % conf.BucketInterval = 0
    /\ \A e \in SpanEnds(b) : b.Start <= e /\ e < b.Start + conf.BucketInterval

\* C2: every bucket starts at a multiple of bucket_ns and holds only spans
\* with B.start <= span.End < B.start + bucket_ns; an accepted span is in the
\* bucket keyed span.End - (span.End mod bucket_ns).
C2_BucketContainment ==
    /\ \A ts \in DOMAIN buckets : buckets[ts].Start = ts /\ Contains(buckets[ts])
    /\ \A i \in 1..Len(last.sb) : Contains(last.sb[i])
    /\ Accepted =>
          LET key == last.end - (last.end % conf.BucketInterval)
          IN  key \in DOMAIN buckets /\ last.end \in SpanEnds(buckets[key])

\* a span that ends inside its bucket, after the bucket's start, was accepted
C2_Witness ==
    /\ Accepted
    /\ last.end % conf.BucketInterval # 0
    /\ Cardinality(DOMAIN buckets) >= 2

\* C3: Flush removes and returns exactly the buckets with
\* start < now - oldest_span_cutoff and start < floor(now / bucket_ns) * bucket_ns
\* (now read on entry); every other bucket stays in the map unchanged.
C3_FlushExact ==
    Flushed =>
        LET gone == {ts \in DOMAIN last.pre :
                        /\ ts < last.now - conf.OldestSpanCutoff
                        /\ ts < BucketFloor(last.now)}
        IN  /\ Starts(last.sb) = gone
            /\ Len(last.sb) = Cardinality(gone)
            /\ \A i \in 1..Len(last.sb) : last.sb[i] = last.pre[last.sb[i].Start]
            /\ DOMAIN buckets = DOMAIN last.pre \ gone
            /\ \A ts \in DOMAIN buckets : buckets[ts] = last.pre[ts]

\* a Flush that returned a bucket and kept one older than the live bucket
C3_Witness ==
    /\ Flushed
    /\ last.sb # << >>
    /\ \E ts \in DOMAIN buckets : ts < BucketFloor(last.now)

\* C4: once Flush has returned the bucket with start t, no span is accepted
\* into a bucket with start t and no later Flush returns that timestamp.
C4_NeverHitAgain ==
    /\ Accepted => BucketFloor(last.end) \notin emitted
    /\ Flushed => last.again = {}

\* C5: the list Flush returns is in strictly ascending start order.
C5_FlushAscending ==
    Flushed =>
        \A i, j \in 1..Len(last.sb) : i < j => last.sb[i].Start < last.sb[j].Start

\* three buckets t, t + b, t + 2b returned by one Flush
C5_Witness ==
    /\ Flushed
    /\ Len(last.sb) = 3
    /\ last.sb[3].Start = last.sb[1].Start + 2 * conf.BucketInterval

\* C19: a call of HandleNewSpan either rejects the span and leaves the
\* buckets alone or counts it once, in one bucket; a Flush moves each bucket
\* either to its result, once, or leaves it in the map unchanged, and
\* returns nothing that was not in the map; nothing else changes the
\* buckets. So every accepted span is counted once, in the map or in one
\* result of Flush.
C19_SpanConservation ==
    /\ [](TotalHits(buckets) + nOut = nSpans)
    /\ [][last'.op = "HandleNewSpan" =>
            IF last'.err
            THEN buckets' = buckets /\ nSpans' = nSpans
            ELSE /\ nSpans' = nSpans + 1
                 /\ TotalHits(buckets') = TotalHits(buckets) + 1
                 /\ \A ts \in DOMAIN buckets :
                       ts \in DOMAIN buckets' /\ HitsOf(buckets'[ts]) >= HitsOf(buckets[ts])]_vars
    /\ [][last'.op = "Flush" =>
            /\ DOMAIN buckets' \subseteq DOMAIN buckets
            /\ \A ts \in DOMAIN buckets' :
                  buckets'[ts] = buckets[ts] /\ ts \notin Starts(last'.sb)
            /\ \A ts \in DOMAIN buckets \ DOMAIN buckets' :
                  Cardinality({i \in 1..Len(last'.sb) : last'.sb[i] = buckets[ts]}) = 1
            /\ \A i \in 1..Len(last'.sb) :
                  /\ last'.sb[i].Start \in DOMAIN buckets \ DOMAIN buckets'
                  /\ last'.sb[i] = buckets[last'.sb[i].Start]
            /\ Len(last'.sb) = Cardinality(DOMAIN buckets \ DOMAIN buckets')
            /\ nOut' = nOut + HitsIn(last'.sb)
            /\ nSpans' = nSpans]_vars
    /\ [][last'.op \notin {"HandleNewSpan", "Flush"} =>
            buckets' = buckets /\ nSpans' = nSpans /\ nOut' = nOut]_vars

\* two spans have left with a Flush, one span is in the map and one span
\* was rejected
C19_Witness ==
    /\ nOut = 2
    /\ TotalHits(buckets) = 1
    /\ nSpans = 3
    /\ last.op = "HandleNewSpan"
    /\ last.err

----------------------------------------------------------------------------
(* Concentrator.Run, the sender on c.in and the receiver on c.out *)

\* the span a flush marker trace is made of
FlushMarker == [End |-> 0, Marker |-> TRUE, Env |-> ""]

IsFlushMarker(s) == s.Marker

\* t.GetEnv(): the env of the trace's root, its first span here
GetEnv(t) == t[1].Env

\* the traces offered at clock value n: a flush marker, a trace without env,
\* a trace with a late and a timely span, a trace that holds a marker span
TraceInputs(n) ==
    { <<FlushMarker>>,
      <<Span(n, "")>>,
      <<Span(n - MaxLate, "prod"), Span(n, "prod")>>,
      <<FlushMarker, Span(n, "prod")>> }

Ordinary(t) == {i \in 1..Len(t) : ~t[i].Marker}

SendTrace ==
    /\ ~inClosed
    /\ Len(inq) < InCap
    /\ Len(recvLog) + Len(inq) < MaxTraces
    /\ \E t \in TraceInputs(now) :
          /\ nSent + Cardinality(Ordinary(t)) <= MaxSpans
          /\ nSent' = nSent + Cardinality(Ordinary(t))
          /\ inq' = Append(inq, t)
    /\ last' = NoCall
    /\ UNCHANGED <<conf, now, buckets, fpc, fnow, emitted, nOut, nSpans, inClosed, rpc,
                   rtrace, renv, ri, pending, outClosed, outLog, recvLog,
                   flushLog, nCalls, nCloses,
                   backVars, moreVars>>

CloseIn ==
    /\ ~inClosed
    /\ inClosed' = TRUE
    /\ last' = NoCall
    /\ UNCHANGED <<conf, now, buckets, fpc, fnow, emitted, nOut, nSpans, inq, rpc,
                   rtrace, renv, ri, pending, outClosed, outLog, recvLog,
                   flushLog, nCalls, nCloses, nSent,
                   backVars, moreVars>>

\* a range loop that ends as soon as the channel is closed
RangeEndsUndrained == inClosed

\* `for t := range c.in` ends when c.in is closed and empty
RangeEnds == inClosed /\ inq = << >>

\* the test on a trace that only looks at its first span
IsFlushTraceAnyLen(t) == IsFlushMarker(t[1])

\* len(t) == 1 && t[0].IsFlushMarker()
IsFlushTrace(t) == Len(t) = 1 /\ IsFlushMarker(t[1])

\* Run receives a flush marker: c.Flush() is evaluated, then the send blocks
RunFlush ==
    /\ rpc = "recv"
    /\ inq # << >>
    /\ IsFlushTrace(Head(inq))
    /\ inq' = Tail(inq)
    /\ recvLog' = Append(recvLog, Head(inq))
    /\ \E order \in Orders(DOMAIN buckets) :
          /\ FlushBody(now, order)
          /\ pending' = FlushLoop(buckets, sortInts64(order), now)
          /\ flushLog' = Append(flushLog, FlushLoop(buckets, sortInts64(order), now))
    /\ rpc' = "send"
    /\ UNCHANGED <<conf, now, fpc, fnow, nSpans, inClosed, rtrace, renv, ri,
                   outClosed, outLog, nCalls, nCloses, nSent,
                   backVars, moreVars>>

\* c.out is unbuffered: the send completes when the receiver takes the batch
RunSend ==
    /\ rpc = "send"
    /\ ~outClosed
    /\ outLog' = Append(outLog, pending)
    /\ pending' = << >>
    /\ rpc' = "recv"
    /\ last' = NoCall
    /\ UNCHANGED <<conf, now, buckets, fpc, fnow, emitted, nOut, nSpans, inq, inClosed,
                   rtrace, renv, ri, outClosed, recvLog, flushLog, nCalls,
                   nCloses, nSent,
                   backVars, moreVars>>

\* Run receives any other trace and extracts its env
RunRecv ==
    /\ rpc = "recv"
    /\ inq # << >>
    /\ ~IsFlushTrace(Head(inq))
    /\ inq' = Tail(inq)
    /\ recvLog' = Append(recvLog, Head(inq))
    /\ rtrace' = Head(inq)
    /\ renv' = IF GetEnv(Head(inq)) = "" THEN conf.DefaultEnv ELSE GetEnv(Head(inq))
    /\ ri' = 1
    /\ rpc' = "span"
    /\ last' = NoCall
    /\ UNCHANGED <<conf, now, buckets, fpc, fnow, emitted, nOut, nSpans, inClosed,
                   pending, outClosed, outLog, flushLog, nCalls, nCloses, nSent,
                   backVars, moreVars>>

\* a loop over the spans that ends at the first error
RunSpanStopsOnError(err) == ~err /\ ri < Len(rtrace)

\* `for _, s := range t` goes on to the next span whatever err is: the
\* error is only logged
RunSpanGoesOn(err) == ri < Len(rtrace)

\* one iteration of the loop over the spans of t
RunSpan ==
    /\ rpc = "span"
    /\ HandleNewSpan(rtrace[ri], renv)
    /\ nCalls' = nCalls + 1
    /\ IF RunSpanGoesOn(last'.err)
       THEN /\ ri' = ri + 1
            /\ UNCHANGED <<rpc, rtrace, renv>>
       ELSE /\ ri' = 0
            /\ rpc' = "recv"
            /\ rtrace' = << >>
            /\ renv' = ""
    /\ UNCHANGED <<conf, now, fpc, fnow, emitted, nOut, inq, inClosed, pending,
                   outClosed, outLog, recvLog, flushLog, nCloses, nSent,
                   backVars, moreVars>>

\* the range has ended: close(c.out)
RunClose ==
    /\ rpc = "recv"
    /\ RangeEnds
    /\ outClosed' = TRUE
    /\ nCloses' = nCloses + 1
    /\ rpc' = "done"
    /\ last' = NoCall
    /\ UNCHANGED <<conf, now, buckets, fpc, fnow, emitted, nOut, nSpans, inq, inClosed,
                   rtrace, renv, ri, pending, outLog, recvLog, flushLog, nCalls,
                   nSent,
                   backVars, moreVars>>

RunStep == RunFlush \/ RunSend \/ RunRecv \/ RunSpan \/ RunClose

\* the configuration Run is started with
InitRun == Init /\ conf.BucketInterval > conf.OldestSpanCutoff

TickRun == now < Now0 + RunTicks /\ Tick

NextRun ==
    \/ TickRun
    \/ SendTrace
    \/ CloseIn
    \/ RunFlush
    \/ RunSend
    \/ RunRecv
    \/ RunSpan
    \/ RunClose

SpecRun == InitRun /\ [][NextRun]_vars

\* the goroutine of Run is scheduled, and the receiver on c.out keeps receiving
FairSpecRun == SpecRun /\ WF_vars(RunStep)

----------------------------------------------------------------------------
(* Claims about Run *)

\* the traces Run treats as a flush signal, as the claims define them
MarkerTrace(t) == Len(t) = 1 /\ t[1].Marker

RECURSIVE SpansOfOrdinary(_)
\* the number of spans in the traces of a log that are not flush signals
SpansOfOrdinary(log) ==
    IF log = << >> THEN 0
    ELSE (IF MarkerTrace(Head(log)) THEN 0 ELSE Len(Head(log)))
            + SpansOfOrdinary(Tail(log))

\* C6: once the input channel is closed, Run handles every trace already
\* sent and then closes the output channel; the output channel is closed at
\* most once and nothing is sent on it after it has been closed.
C6_GracefulShutdown ==
    /\ inClosed ~> outClosed
    /\ [](outClosed =>
            /\ inClosed /\ inq = << >> /\ rpc = "done"
            /\ nCalls = SpansOfOrdinary(recvLog)
            /\ Len(outLog) = Len(flushLog))
    /\ [](nCloses <= 1)
    /\ [][outClosed => (outClosed' /\ outLog' = outLog /\ nCloses' = nCloses)]_vars

\* the output was closed after a batch was delivered and spans were handled
C6_Witness ==
    /\ outClosed
    /\ Len(recvLog) = MaxTraces
    /\ Len(outLog) >= 1
    /\ nCalls >= 1

\* C7: every single flush-marker trace Run receives triggers exactly one
\* Flush, whose result is sent as one batch, in the order of the markers; no
\* other trace causes a send, and exactly the spans of the other traces are
\* passed to HandleNewSpan.
C7_MarkerFlushes ==
    LET markers == {i \in 1..Len(recvLog) : MarkerTrace(recvLog[i])}
        sends == IF rpc = "send" THEN outLog \o <<pending>> ELSE outLog
        todo == IF rpc = "span" THEN Len(rtrace) - ri + 1 ELSE 0
    IN  /\ Len(flushLog) = Cardinality(markers)
        /\ sends = flushLog
        /\ nCalls + todo = SpansOfOrdinary(recvLog)
        /\ rpc = "send" => MarkerTrace(recvLog[Len(recvLog)])
        /\ rpc = "span" => ~MarkerTrace(rtrace) /\ rtrace = recvLog[Len(recvLog)]

\* a marker produced a batch with a bucket in it, and a two-span trace that
\* holds a marker span was handled as an ordinary trace
C7_Witness ==
    /\ rpc = "recv"
    /\ \E i \in 1..Len(outLog) : outLog[i] # << >>
    /\ \E i \in 1..Len(recvLog) : Len(recvLog[i]) = 2 /\ recvLog[i][1].Marker

\* the number of spans with end e and env v the buckets of bs have counted
HitsAt(bs, ts, e, v) ==
    IF ts \in DOMAIN bs /\ <<e, v>> \in DOMAIN bs[ts].Hits
    THEN bs[ts].Hits[<<e, v>>] ELSE 0

\* C17: a call of HandleNewSpan made by Run rejects the span exactly when
\* it is late and then leaves the buckets alone, and counts it otherwise;
\* after either result Run goes on with the next span of the trace, or
\* with the next trace, and does not close its output; the loop over a
\* trace ends and every trace sent is received.
C17_ErrorsAreLocal ==
    /\ [][nCalls' = nCalls + 1 =>
            /\ last'.op = "HandleNewSpan"
            /\ last'.end = rtrace[ri].End
            /\ last'.err <=> (now - rtrace[ri].End > conf.OldestSpanCutoff)
            /\ last'.err => buckets' = buckets
            /\ ~last'.err =>
                  /\ TotalHits(buckets') = TotalHits(buckets) + 1
                  /\ HitsAt(buckets', BucketFloor(rtrace[ri].End), rtrace[ri].End, renv)
                        = HitsAt(buckets, BucketFloor(rtrace[ri].End), rtrace[ri].End, renv) + 1
            /\ IF ri < Len(rtrace)
               THEN rpc' = "span" /\ ri' = ri + 1 /\ rtrace' = rtrace /\ renv' = renv
               ELSE rpc' = "recv"
            /\ ~outClosed' /\ inq' = inq /\ recvLog' = recvLog]_vars
    /\ (rpc = "span") ~> (rpc = "recv")
    /\ \A k \in 1..MaxTraces :
          (Len(recvLog) + Len(inq) >= k) ~> (Len(recvLog) >= k)

\* Run has handled a trace of two spans: the first was rejected, the
\* second was counted
C17_Witness ==
    /\ rpc = "recv"
    /\ Len(recvLog) = 1
    /\ Len(recvLog[1]) = 2
    /\ ~recvLog[1][1].Marker
    /\ nCalls = 2
    /\ nSpans = 1
    /\ Accepted
    /\ TotalHits(buckets) = 1

----------------------------------------------------------------------------
(* The sampler Backend *)

CountAllowed ==
    /\ nCounts < MaxCounts
    /\ decays < CountWindow \/ decays >= MaxDecays - CountWindow

\* b.scores[signature], the zero value when the key is absent
ScoreOf(sig) == IF sig \in DOMAIN scores THEN scores[sig] ELSE Zero

\* a count that overwrites the entry instead of incrementing it
IncrementedFromZero(sc, signature) ==
    [s \in DOMAIN sc \cup {signature} |-> IF s = signature THEN One ELSE sc[s]]

\* the score map after b.scores[signature]++
Incremented(sc, signature) ==
    [s \in DOMAIN sc \cup {signature} |->
        IF s = signature
        THEN RAdd(IF s \in DOMAIN sc THEN sc[s] ELSE Zero, One)
        ELSE sc[s]]

CountSignature(signature) ==
    /\ scores' = Incremented(scores, signature)
    /\ totalScore' = RAdd(totalScore, One)
    /\ nCounts' = nCounts + 1
    /\ bop' = "CountSignature"
    /\ epochs' = [epochs EXCEPT ![signature] = Append(@, decays)]
    /\ UNCHANGED <<sampledScore, decays, concVars, runVars>>

CallCountSignature ==
    /\ CountAllowed
    /\ \E signature \in Signatures : CountSignature(signature)
    /\ UNCHANGED moreVars

CountSample ==
    /\ sampledScore' = RAdd(sampledScore, One)
    /\ nCounts' = nCounts + 1
    /\ bop' = "CountSample"
    /\ UNCHANGED <<scores, totalScore, decays, epochs, concVars, runVars>>

CallCountSample == CountAllowed /\ CountSample /\ UNCHANGED moreVars

\* an entry test that forgets the decay factor
SurvivesOffsetOnly(score) == ~RLeqFrac(score, MinOffsetNum, MinOffsetDen)

\* score > b.decayFactor*minSignatureScoreOffset
Survives(score) ==
    ~RLeqFrac(score, DecayNum * MinOffsetNum, DecayDen * MinOffsetDen)

\* an entry that is divided twice
DecayEntryTwice(score) == RDivF(RDivF(score))

\* b.scores[sig] /= b.decayFactor
DecayEntry(score) == RDivF(score)

\* the range over b.scores visits every key once; the entry of the key it
\* is at is divided or deleted
Decayed(sc) ==
    [s \in {x \in DOMAIN sc : Survives(sc[x])} |-> DecayEntry(sc[s])]

DecayScore ==
    /\ decays < MaxDecays
    /\ scores' = Decayed(scores)
    /\ totalScore' = RDivF(totalScore)
    /\ sampledScore' = RDivF(sampledScore)
    /\ decays' = decays + 1
    /\ bop' = "DecayScore"
    /\ UNCHANGED <<nCounts, epochs, concVars, runVars>>

CallDecayScore == DecayScore /\ UNCHANGED moreVars

\* a factor (1 / (decayFactor - 1)) * decayPeriod
CountScaleNumNoFactor == DecayDen * DecayPeriodSeconds

\* factor from a score to a number of traces per second:
\* (decayFactor / (decayFactor - 1)) * decayPeriod.Seconds()
CountScaleNum == DecayNum * DecayPeriodSeconds
CountScaleDen == DecayNum - DecayDen

\* the getters return score / countScaleFactor: here the fraction num / den
Scaled(v) ==
    [num |-> BMulSmall(v.n, CountScaleDen),
     den |-> BTimesPow(BFromInt(CountScaleNum), DecayNum, v.k)]

GetSignatureScore(signature) == Scaled(ScoreOf(signature))

GetSampledScore == Scaled(sampledScore)

GetTotalScore == Scaled(totalScore)

\* the score divided by the factor instead of multiplied
UpperDivided(score) ==
    [num |-> BMulSmall(score.num, DecayDen), den |-> BMulSmall(score.den, DecayNum)]

\* score * b.decayFactor
Upper(score) ==
    [num |-> BMulSmall(score.num, DecayNum), den |-> BMulSmall(score.den, DecayDen)]

GetUpperSampledScore == Upper(GetSampledScore)

GetCardinality == Cardinality(DOMAIN scores)

NextBackend ==
    \/ CallCountSignature
    \/ CallCountSample
    \/ CallDecayScore

SpecBackend == InitRun /\ [][NextBackend]_vars

----------------------------------------------------------------------------
(* Claims about the Backend *)

RECURSIVE SumOver(_)
\* the sum of scores[s] over the signatures of the set S
SumOver(S) ==
    IF S = {} THEN Zero
    ELSE LET s == CHOOSE x \in S : TRUE
         IN  RAdd(scores[s], SumOver(S \ {s}))

\* C8: after any DecayScore call, total_score equals the sum of scores[s]
\* over the signatures in the score map.
C8_TotalIsSum ==
    bop = "DecayScore" => totalScore = SumOver(DOMAIN scores)

\* new = old / decay_factor, stated as decay_factor * new = old
Contracted(new, old) == RTimes(new, DecayNum) = RTimes(old, DecayDen)

\* C9: one DecayScore call divides by decay_factor every score that
\* survives it, total_score and sampled_score; a score of 1 that survives
\* 6 consecutive calls equals (8/9)^6.
C9_DecayContraction ==
    /\ [][decays' = decays + 1 =>
            /\ DOMAIN scores' \subseteq DOMAIN scores
            /\ \A s \in DOMAIN scores' : Contracted(scores'[s], scores[s])
            /\ Contracted(totalScore', totalScore)
            /\ Contracted(sampledScore', sampledScore)]_vars
    /\ [](\A s \in Signatures :
            epochs[s] = <<0>> /\ decays = 6 =>
                /\ s \in DOMAIN scores
                /\ scores[s].k = 6
                /\ scores[s].n = BFromInt(8 * 8 * 8 * 8 * 8 * 8))

\* two signatures and the sampled score have gone through six decays
C9_Witness ==
    /\ bop = "DecayScore"
    /\ decays = 6
    /\ epochs[11] = <<0>>
    /\ epochs[22] = <<1>>
    /\ 22 \in DOMAIN scores
    /\ sampledScore # Zero

\* the number of DecayScore calls after which a signature counted once is gone:
\* (8/9)^38 > 9/800 >= (8/9)^39
EvictedAfter == 39 + 1

\* C10: a signature counted once is removed by the first DecayScore that
\* finds its score <= decay_factor * min_offset, and not earlier: that is
\* its 40th DecayScore; from then on GetCardinality does not count it and
\* GetSignatureScore returns 0 for it.
C10_Eviction ==
    /\ [][decays' = decays + 1 =>
            \A s \in DOMAIN scores :
                s \notin DOMAIN scores' <=>
                    BLeq(BMulSmall(scores[s].n, DecayDen * MinOffsetDen),
                         BTimesPow(<<DecayNum * MinOffsetNum>>, DecayNum, scores[s].k))]_vars
    /\ [](\A s \in Signatures :
            Len(epochs[s]) = 1 =>
                (s \in DOMAIN scores <=> decays < epochs[s][1] + EvictedAfter))
    /\ [](\A s \in Signatures :
            s \notin DOMAIN scores =>
                /\ GetSignatureScore(s).num = << >>
                /\ GetSignatureScore(s).den # << >>
                /\ GetCardinality = Cardinality({x \in Signatures : x \in DOMAIN scores}))

\* a signature counted once has just been removed while another one stays
C10_Witness ==
    /\ bop = "DecayScore"
    /\ decays = EvictedAfter
    /\ epochs[11] = <<0>>
    /\ 11 \notin DOMAIN scores
    /\ 22 \in DOMAIN scores
    /\ GetCardinality = 1

\* C14: GetUpperSampledScore() is GetSampledScore() times decay_factor (9/8),
\* and is never below GetSampledScore(), which is never negative.
C14_UpperBound ==
    LET sampled == GetSampledScore
        upper == GetUpperSampledScore
    IN  /\ BMul(BMulSmall(upper.num, DecayDen), sampled.den)
              = BMul(BMulSmall(sampled.num, DecayNum), upper.den)
        /\ FracLeq(sampled, upper)
        /\ FracLeq([num |-> << >>, den |-> <<1>>], sampled)
        /\ sampled.den # << >> /\ upper.den # << >>
        /\ sampledScore # Zero => ~FracLeq(upper, sampled)

\* the sampled score has been counted twice and decayed
C14_Witness ==
    /\ bop = "DecayScore"
    /\ decays >= 2
    /\ nCounts - Len(epochs[11]) - Len(epochs[22]) = 2
    /\ sampledScore # Zero

RECURSIVE SumOf(_)
\* the sum of the entries of the score map sc
SumOf(sc) ==
    IF DOMAIN sc = {} THEN Zero
    ELSE LET s == CHOOSE x \in DOMAIN sc : TRUE
         IN  RAdd(sc[s], SumOf([x \in DOMAIN sc \ {s} |-> sc[x]]))

----------------------------------------------------------------------------
(* Backend.Run, its ticker, and Backend.Stop *)

\* Run is entered: t := time.NewTicker(b.decayPeriod)
RunEnter ==
    /\ ~panicked
    /\ bpc = "new"
    /\ bpc' = "select"
    /\ UNCHANGED <<exitClosed, panicked, tickC, nTicks>>
    /\ UNCHANGED <<concVars, runVars, backVars, muVars, lockVars, subVars>>

\* the period has elapsed: the ticker puts a tick in t.C; a tick that finds
\* the channel full is dropped
TickerFire ==
    /\ ~panicked
    /\ bpc \in {"select", "decay"}
    /\ nTicks < MaxTicks
    /\ tickC = 0
    /\ tickC' = 1
    /\ nTicks' = nTicks + 1
    /\ UNCHANGED <<exitClosed, panicked, bpc>>
    /\ UNCHANGED <<concVars, runVars, backVars, muVars, lockVars, subVars>>

\* a select that has no exit case
CaseExitMissing == FALSE

\* case <-b.exit: the receive from a closed channel is ready
CaseExit == exitClosed

\* case <-t.C
RunTick ==
    /\ ~panicked
    /\ bpc = "select"
    /\ tickC = 1
    /\ tickC' = 0
    /\ bpc' = "decay"
    /\ UNCHANGED <<exitClosed, panicked, nTicks>>
    /\ UNCHANGED <<concVars, runVars, backVars, muVars, lockVars, subVars>>

\* b.DecayScore(), then back to the select
RunDecay ==
    /\ ~panicked
    /\ bpc = "decay"
    /\ DecayScore
    /\ bpc' = "select"
    /\ UNCHANGED <<exitClosed, panicked, tickC, nTicks>>
    /\ UNCHANGED <<muVars, lockVars, subVars>>

\* return; the deferred t.Stop() stops the ticker
RunExit ==
    /\ ~panicked
    /\ bpc = "select"
    /\ CaseExit
    /\ bpc' = "returned"
    /\ UNCHANGED <<exitClosed, panicked, tickC, nTicks>>
    /\ UNCHANGED <<concVars, runVars, backVars, muVars, lockVars, subVars>>

\* close(b.exit): the close of a closed channel panics
Stop ==
    /\ ~panicked
    /\ IF exitClosed
       THEN panicked' = TRUE /\ exitClosed' = exitClosed
       ELSE exitClosed' = TRUE /\ panicked' = panicked
    /\ UNCHANGED <<bpc, tickC, nTicks>>
    /\ UNCHANGED <<concVars, runVars, backVars, muVars, lockVars, subVars>>

\* the sampler counts while Run runs
LifeCountSignature == ~panicked /\ CallCountSignature

LifeCountSample == ~panicked /\ CallCountSample

NextStop ==
    \/ RunEnter
    \/ TickerFire
    \/ RunTick
    \/ RunDecay
    \/ RunExit
    \/ Stop
    \/ LifeCountSignature
    \/ LifeCountSample

SpecStop == InitRun /\ [][NextStop]_vars

\* the single call of Stop the lifecycle has
StopOnce == ~exitClosed /\ Stop

NextLife ==
    \/ RunEnter
    \/ TickerFire
    \/ RunTick
    \/ RunDecay
    \/ RunExit
    \/ StopOnce
    \/ LifeCountSignature
    \/ LifeCountSample

SpecLife == InitRun /\ [][NextLife]_vars

\* the goroutine of Run is scheduled, and a select with several ready cases
\* picks each of them with the same probability
FairSpecLife ==
    /\ SpecLife
    /\ WF_vars(RunTick \/ RunDecay \/ RunExit)
    /\ SF_vars(RunExit)

----------------------------------------------------------------------------
(* Claims about Backend.Run and Backend.Stop *)

\* C11: no call of Stop panics, whether it is the first or the second one
\* and whether or not Run has been entered.
C11_StopIdempotent == ~panicked

\* C12: once the exit channel is closed, Run (entered before or after)
\* eventually returns; Run returns only after Stop; every tick Run receives
\* is followed by exactly one DecayScore, and none is made after the return.
C12_Lifecycle ==
    /\ (exitClosed /\ bpc # "new") ~> (bpc = "returned")
    /\ [](bpc = "returned" => exitClosed)
    /\ [](decays + (IF bpc = "decay" THEN 1 ELSE 0) = nTicks - tickC)
    /\ (bpc = "decay") ~> (bpc = "select")
    /\ [][bpc = "returned" => (bpc' = "returned" /\ decays' = decays)]_vars

\* Run has returned after a DecayScore, with a tick left in the channel
C12_Witness ==
    /\ bpc = "returned"
    /\ decays >= 1
    /\ tickC = 1

----------------------------------------------------------------------------
(* The Backend's methods on concurrent threads, statement by statement *)

muFrame == <<concVars, runVars, lifeVars, lockVars, subVars>>

\* a method that does not wait for the mutex
MuFreeUnlocked == TRUE

\* b.mu.Lock() returns when no thread holds the mutex
MuFree == mu = "none"

\* DecayScore: b.mu.Lock()
MuDecayLock ==
    /\ dpc = "idle"
    /\ decays < MuDecays
    /\ MuFree
    /\ mu' = "decayer"
    /\ dpc' = "loop"
    /\ dkeys' = DOMAIN scores
    /\ UNCHANGED <<backVars, cpc, csig, gpc, gsel, gres, whole, muFrame>>

\* one iteration of `for sig := range b.scores`, in the order of the map
MuDecayEntry ==
    /\ dpc = "loop"
    /\ \E sig \in dkeys \cap DOMAIN scores :
          /\ scores' = IF Survives(scores[sig])
                       THEN [scores EXCEPT ![sig] = DecayEntry(@)]
                       ELSE [s \in DOMAIN scores \ {sig} |-> scores[s]]
          /\ dkeys' = dkeys \ {sig}
    /\ UNCHANGED <<totalScore, sampledScore, decays, nCounts, bop, epochs>>
    /\ UNCHANGED <<mu, dpc, cpc, csig, gpc, gsel, gres, whole, muFrame>>

\* b.totalScore /= b.decayFactor
MuDecayTotal ==
    /\ dpc = "loop"
    /\ dkeys \cap DOMAIN scores = {}
    /\ totalScore' = RDivF(totalScore)
    /\ dpc' = "total"
    /\ UNCHANGED <<scores, sampledScore, decays, nCounts, bop, epochs>>
    /\ UNCHANGED <<mu, dkeys, cpc, csig, gpc, gsel, gres, whole, muFrame>>

\* b.sampledScore /= b.decayFactor; b.mu.Unlock()
MuDecaySampled ==
    /\ dpc = "total"
    /\ sampledScore' = RDivF(sampledScore)
    /\ mu' = "none"
    /\ dpc' = "idle"
    /\ dkeys' = {}
    /\ decays' = decays + 1
    /\ bop' = "DecayScore"
    /\ whole' = [scores |-> Decayed(whole.scores),
                 totalScore |-> RDivF(whole.totalScore),
                 sampledScore |-> RDivF(whole.sampledScore)]
    /\ gres' = [set |-> FALSE, val |-> 0]
    /\ UNCHANGED <<scores, totalScore, nCounts, epochs>>
    /\ UNCHANGED <<cpc, csig, gpc, gsel, muFrame>>

\* CountSignature(signature) or CountSample(): b.mu.Lock()
MuCountLock ==
    /\ cpc = "idle"
    /\ nCounts < MuCounts
    /\ MuFree
    /\ mu' = "counter"
    /\ \/ \E signature \in Signatures : cpc' = "score" /\ csig' = signature
       \/ cpc' = "sample" /\ csig' = 0
    /\ UNCHANGED <<backVars, dpc, dkeys, gpc, gsel, gres, whole, muFrame>>

\* b.scores[signature]++
MuCountScore ==
    /\ cpc = "score"
    /\ scores' = Incremented(scores, csig)
    /\ cpc' = "total"
    /\ UNCHANGED <<totalScore, sampledScore, decays, nCounts, bop, epochs>>
    /\ UNCHANGED <<mu, dpc, dkeys, csig, gpc, gsel, gres, whole, muFrame>>

\* b.totalScore++; b.mu.Unlock()
MuCountTotal ==
    /\ cpc = "total"
    /\ totalScore' = RAdd(totalScore, One)
    /\ mu' = "none"
    /\ cpc' = "idle"
    /\ csig' = 0
    /\ nCounts' = nCounts + 1
    /\ bop' = "CountSignature"
    /\ epochs' = [epochs EXCEPT ![csig] = Append(@, decays)]
    /\ whole' = [whole EXCEPT !.scores = Incremented(@, csig),
                              !.totalScore = RAdd(@, One)]
    /\ UNCHANGED <<scores, sampledScore, decays>>
    /\ UNCHANGED <<dpc, dkeys, gpc, gsel, gres, muFrame>>

\* b.sampledScore++; b.mu.Unlock()
MuCountSample ==
    /\ cpc = "sample"
    /\ sampledScore' = RAdd(sampledScore, One)
    /\ mu' = "none"
    /\ cpc' = "idle"
    /\ nCounts' = nCounts + 1
    /\ bop' = "CountSample"
    /\ whole' = [whole EXCEPT !.sampledScore = RAdd(@, One)]
    /\ UNCHANGED <<scores, totalScore, decays, epochs>>
    /\ UNCHANGED <<dpc, dkeys, csig, gpc, gsel, gres, muFrame>>

\* the getters of the Backend
Getters ==
    {[name |-> "GetSignatureScore", sig |-> s] : s \in Signatures}
        \cup {[name |-> n, sig |-> 0] :
                 n \in {"GetSampledScore", "GetTotalScore",
                        "GetUpperSampledScore", "GetCardinality"}}

\* what the getter g returns when it reads the scores now
GetterCall(g) ==
    CASE g.name = "GetSignatureScore" -> GetSignatureScore(g.sig)
      [] g.name = "GetSampledScore" -> GetSampledScore
      [] g.name = "GetTotalScore" -> GetTotalScore
      [] g.name = "GetUpperSampledScore" -> GetUpperSampledScore
      [] g.name = "GetCardinality" -> GetCardinality

\* a getter: b.mu.Lock(); the thread keeps to the getter it called first
MuGetLock ==
    /\ gpc = "idle"
    /\ MuFree
    /\ mu' = "getter"
    /\ gpc' = "read"
    /\ \E g \in Getters :
          /\ gsel.name = "none" \/ gsel = g
          /\ gsel' = g
    /\ UNCHANGED <<backVars, dpc, dkeys, cpc, csig, gres, whole, muFrame>>

\* score := ... ; b.mu.Unlock(); return
MuGetRead ==
    /\ gpc = "read"
    /\ gres' = [set |-> TRUE, val |-> GetterCall(gsel)]
    /\ mu' = "none"
    /\ gpc' = "idle"
    /\ UNCHANGED <<backVars, dpc, dkeys, cpc, csig, gsel, whole, muFrame>>

NextMu ==
    \/ MuDecayLock
    \/ MuDecayEntry
    \/ MuDecayTotal
    \/ MuDecaySampled
    \/ MuCountLock
    \/ MuCountScore
    \/ MuCountTotal
    \/ MuCountSample
    \/ MuGetLock
    \/ MuGetRead

SpecMu == InitRun /\ [][NextMu]_vars

----------------------------------------------------------------------------
(* Claims about the Backend's mutex *)

\* what the getter g returns on the scores w
GetterOn(g, w) ==
    CASE g.name = "GetSignatureScore" ->
            Scaled(IF g.sig \in DOMAIN w.scores THEN w.scores[g.sig] ELSE Zero)
      [] g.name = "GetSampledScore" -> Scaled(w.sampledScore)
      [] g.name = "GetTotalScore" -> Scaled(w.totalScore)
      [] g.name = "GetUpperSampledScore" ->
            [num |-> BMulSmall(Scaled(w.sampledScore).num, DecayNum),
             den |-> BMulSmall(Scaled(w.sampledScore).den, DecayDen)]
      [] g.name = "GetCardinality" -> Cardinality(DOMAIN w.scores)

\* a <= b for two results of the getter g
ResultLeq(g, a, b) ==
    IF g.name = "GetCardinality" THEN a <= b ELSE FracLeq(a, b)

\* C13: every getter returns its value on the scores as whole calls of
\* CountSignature, CountSample and DecayScore leave them, never on scores a
\* call has changed in part; between two decays the results of one getter
\* do not decrease; when no call is under way the scores are those whole
\* calls produce.
C13_SamplerAtomicity ==
    /\ [][gpc = "read" /\ gpc' = "idle" =>
            /\ gres'.val = GetterOn(gsel, whole)
            /\ gres.set => ResultLeq(gsel, gres.val, gres'.val)]_vars
    /\ [](mu = "none" =>
            whole = [scores |-> scores, totalScore |-> totalScore,
                     sampledScore |-> sampledScore])
    /\ [](mu = "none" <=> (dpc = "idle" /\ cpc = "idle" /\ gpc = "idle"))

\* a getter waits while a DecayScore has divided one score of two, and it
\* has returned a value before
C13_Witness ==
    /\ dpc = "loop"
    /\ Cardinality(DOMAIN scores) = 2
    /\ Cardinality(dkeys) = 1
    /\ gpc = "idle"
    /\ gres.set
    /\ gsel.name = "GetTotalScore"

----------------------------------------------------------------------------
(* A signature counted at a constant rate *)

\* the signature that is fed
Fed == 11

\* the number of CountSignature(Fed) calls made in decay period p
CountIn(p) == Cardinality({i \in 1..Len(epochs[Fed]) : epochs[Fed][i] = p})

\* the first period sets the rate, every later period repeats it
SteadyCount ==
    /\ IF decays = 0 THEN CountIn(0) < MaxRate ELSE CountIn(decays) < CountIn(0)
    /\ CountSignature(Fed)
    /\ UNCHANGED moreVars

\* the period ends once its counts are in
SteadyDecay ==
    /\ CountIn(0) >= 1
    /\ CountIn(decays) = CountIn(0)
    /\ decays < SteadyPeriods
    /\ DecayScore
    /\ UNCHANGED moreVars

SteadySample ==
    /\ nCounts - Len(epochs[Fed]) < MaxSamples
    /\ CountSample
    /\ UNCHANGED moreVars

NextSteady ==
    \/ SteadyCount
    \/ SteadyDecay
    \/ SteadySample

SpecSteady == InitRun /\ [][NextSteady]_vars

\* the number of periods after which the band holds at every point
LongEnough == 1 + 1

\* C15: with s counted r * decay_period times in every period, after
\* enough periods GetSignatureScore(s) is in [r * (1 - 1/decay_factor), r]
\* at every point of the cycle.
C15_SteadyRate ==
    decays >= LongEnough =>
        /\ FracLeq([num |-> BFromInt(CountIn(0) * (DecayNum - DecayDen)),
                    den |-> BFromInt(DecayNum * DecayPeriodSeconds)],
                   GetSignatureScore(Fed))
        /\ FracLeq(GetSignatureScore(Fed),
                   [num |-> BFromInt(CountIn(0)), den |-> BFromInt(DecayPeriodSeconds)])

\* the last period of a feed of two counts per period, read before its
\* counts and after them
C15_Witness ==
    /\ decays = SteadyPeriods
    /\ CountIn(0) = 2
    /\ CountIn(decays) \in {0, 2}
    /\ bop \in {"DecayScore", "CountSignature"}

----------------------------------------------------------------------------
(* The Concentrator with its lock: Run, a thread that calls HandleNewSpan
   and a thread that calls Flush, statement by statement.  Run's positions
   are "recv", "span", "send", "done" as before, and "sheld", "snew" inside
   HandleNewSpan, "flock", "fheld" inside Flush.                           *)

lkFrame == <<lifeVars, muVars, subVars, backVars>>

\* a Lock() that does not wait
LockFreeAlways == TRUE

\* c.lock.Lock() returns when no thread holds the lock
LockFree == lock = "none"

\* c.buckets[bucketTs] = b for a bucket that was not in the map
WithBucket(bs, bucketTs) ==
    IF bucketTs \in DOMAIN bs THEN bs
    ELSE [ts \in DOMAIN bs \cup {bucketTs} |->
             IF ts = bucketTs THEN NewStatsBucket(bucketTs, conf.BucketInterval)
             ELSE bs[ts]]

\* Run after a call of HandleNewSpan: the next span, or the next trace
RunAdvance(err) ==
    /\ nCalls' = nCalls + 1
    /\ IF RunSpanGoesOn(err)
       THEN /\ ri' = ri + 1
            /\ rpc' = "span"
            /\ UNCHANGED <<rtrace, renv>>
       ELSE /\ ri' = 0
            /\ rpc' = "recv"
            /\ rtrace' = << >>
            /\ renv' = ""

\* the traces sent to Run at clock value n: a flush marker, a trace of one span
LkTraceInputs(n) == {<<FlushMarker>>, <<Span(n, "prod")>>}

LkSendTrace ==
    /\ Len(inq) < InCap
    /\ Len(recvLog) + Len(inq) < LkTraces
    /\ \E t \in LkTraceInputs(now) :
          /\ nSent' = nSent + Cardinality(Ordinary(t))
          /\ inq' = Append(inq, t)
    /\ last' = NoCall
    /\ UNCHANGED <<conf, now, buckets, fpc, fnow, emitted, nOut, nSpans, inClosed,
                   rpc, rtrace, renv, ri, pending, outClosed, outLog, recvLog,
                   flushLog, nCalls, nCloses, lockVars, lkFrame>>

LkTick == now < Now0 + LkTicks /\ Tick

\* Run receives a flush marker and enters Flush, which reads the clock
LkRunMarker ==
    /\ rpc = "recv"
    /\ inq # << >>
    /\ IsFlushTrace(Head(inq))
    /\ inq' = Tail(inq)
    /\ recvLog' = Append(recvLog, Head(inq))
    /\ rfnow' = now
    /\ rpc' = "flock"
    /\ last' = NoCall
    /\ UNCHANGED <<conf, now, buckets, fpc, fnow, emitted, nOut, nSpans, inClosed,
                   rtrace, renv, ri, pending, outClosed, outLog, flushLog, nCalls,
                   nCloses, nSent, lock, hpc, hspan, nExt, lkFrame>>

\* Flush in Run: c.lock.Lock()
LkRunFlushLock ==
    /\ rpc = "flock"
    /\ LockFree
    /\ lock' = "run"
    /\ rpc' = "fheld"
    /\ last' = NoCall
    /\ UNCHANGED <<conf, now, buckets, fpc, fnow, emitted, nOut, nSpans, inq,
                   inClosed, rtrace, renv, ri, pending, outClosed, outLog, recvLog,
                   flushLog, nCalls, nCloses, nSent, hpc, hspan, rfnow, nExt, lkFrame>>

\* Flush in Run: the loops, the deferred Unlock, and the value to send
LkRunFlushBody ==
    /\ rpc = "fheld"
    /\ \E order \in Orders(DOMAIN buckets) :
          /\ FlushBody(rfnow, order)
          /\ pending' = FlushLoop(buckets, sortInts64(order), rfnow)
          /\ flushLog' = Append(flushLog, FlushLoop(buckets, sortInts64(order), rfnow))
    /\ lock' = "none"
    /\ rfnow' = 0
    /\ rpc' = "send"
    /\ UNCHANGED <<conf, now, fpc, fnow, nSpans, inq, inClosed, rtrace, renv, ri,
                   outClosed, outLog, recvLog, nCalls, nCloses, nSent, hpc, hspan,
                   nExt, lkFrame>>

\* HandleNewSpan in Run: c.lock.Lock()
LkRunSpanLock ==
    /\ rpc = "span"
    /\ LockFree
    /\ lock' = "run"
    /\ rpc' = "sheld"
    /\ last' = NoCall
    /\ UNCHANGED <<conf, now, buckets, fpc, fnow, emitted, nOut, nSpans, inq,
                   inClosed, rtrace, renv, ri, pending, outClosed, outLog, recvLog,
                   flushLog, nCalls, nCloses, nSent, hpc, hspan, rfnow, nExt, lkFrame>>

\* HandleNewSpan in Run: the lateness test, then the bucket is put in the map
LkRunSpanCheck ==
    /\ rpc = "sheld"
    /\ IF IsLate(now, rtrace[ri].End)
       THEN /\ lock' = "none"
            /\ last' = NoCall
            /\ RunAdvance(TRUE)
            /\ UNCHANGED buckets
       ELSE /\ buckets' = WithBucket(buckets, roundToBucket(rtrace[ri].End))
            /\ rpc' = "snew"
            /\ last' = NoCall
            /\ UNCHANGED <<lock, rtrace, renv, ri, nCalls>>
    /\ UNCHANGED <<conf, now, fpc, fnow, emitted, nOut, nSpans, inq, inClosed,
                   pending, outClosed, outLog, recvLog, flushLog, nCloses, nSent,
                   hpc, hspan, rfnow, nExt, lkFrame>>

\* HandleNewSpan in Run: b.HandleSpan, return nil and the deferred Unlock
LkRunSpanHandle ==
    /\ rpc = "snew"
    /\ buckets' = PutSpan(buckets, rtrace[ri], renv)
    /\ nSpans' = nSpans + 1
    /\ lock' = "none"
    /\ last' = NoCall
    /\ RunAdvance(FALSE)
    /\ UNCHANGED <<conf, now, fpc, fnow, emitted, nOut, inq, inClosed, pending,
                   outClosed, outLog, recvLog, flushLog, nCloses, nSent, hpc, hspan,
                   rfnow, nExt, lkFrame>>

\* the span ends another thread calls HandleNewSpan with at clock value n
LkEnds(n) == {n - MaxLate, n}

\* another thread calls HandleNewSpan and waits for the lock
LkCallEnter ==
    /\ hpc = "idle"
    /\ nExt < MaxExt
    /\ nExt' = nExt + 1
    /\ \E end \in LkEnds(now) : hspan' = Span(end, "prod")
    /\ hpc' = "wait"
    /\ last' = NoCall
    /\ UNCHANGED <<conf, now, buckets, fpc, fnow, emitted, nOut, nSpans, runVars,
                   lock, rfnow, lkFrame>>

LkCallLock ==
    /\ hpc = "wait"
    /\ LockFree
    /\ lock' = "caller"
    /\ hpc' = "held"
    /\ last' = NoCall
    /\ UNCHANGED <<conf, now, buckets, fpc, fnow, emitted, nOut, nSpans, runVars,
                   hspan, rfnow, nExt, lkFrame>>

LkCallCheck ==
    /\ hpc = "held"
    /\ IF IsLate(now, hspan.End)
       THEN /\ lock' = "none"
            /\ hpc' = "idle"
            /\ last' = NoCall
            /\ UNCHANGED buckets
       ELSE /\ buckets' = WithBucket(buckets, roundToBucket(hspan.End))
            /\ hpc' = "new"
            /\ last' = NoCall
            /\ UNCHANGED lock
    /\ UNCHANGED <<conf, now, fpc, fnow, emitted, nOut, nSpans, runVars, hspan,
                   rfnow, nExt, lkFrame>>

LkCallHandle ==
    /\ hpc = "new"
    /\ buckets' = PutSpan(buckets, hspan, hspan.Env)
    /\ nSpans' = nSpans + 1
    /\ lock' = "none"
    /\ hpc' = "idle"
    /\ last' = NoCall
    /\ UNCHANGED <<conf, now, fpc, fnow, emitted, nOut, runVars, hspan, rfnow,
                   nExt, lkFrame>>

\* Flush on another thread, after FlushEnter: c.lock.Lock()
LkFlushLock ==
    /\ fpc = "lock"
    /\ LockFree
    /\ lock' = "flusher"
    /\ fpc' = "held"
    /\ last' = NoCall
    /\ UNCHANGED <<conf, now, buckets, fnow, emitted, nOut, nSpans, runVars, hpc,
                   hspan, rfnow, nExt, lkFrame>>

LkFlushBody ==
    /\ fpc = "held"
    /\ \E order \in Orders(DOMAIN buckets) : FlushBody(fnow, order)
    /\ lock' = "none"
    /\ fpc' = "idle"
    /\ fnow' = 0
    /\ UNCHANGED <<conf, now, nSpans, runVars, hpc, hspan, rfnow, nExt, lkFrame>>

RunLocked == LkRunFlushBody \/ LkRunSpanCheck \/ LkRunSpanHandle

NextLock ==
    \/ LkTick
    \/ LkSendTrace
    \/ RunRecv
    \/ LkRunMarker
    \/ LkRunFlushLock
    \/ LkRunFlushBody
    \/ RunSend
    \/ LkRunSpanLock
    \/ LkRunSpanCheck
    \/ LkRunSpanHandle
    \/ LkCallEnter
    \/ LkCallLock
    \/ LkCallCheck
    \/ LkCallHandle
    \/ FlushEnter
    \/ LkFlushLock
    \/ LkFlushBody

SpecLock == InitRun /\ [][NextLock]_vars

\* a thread that holds the lock is scheduled, and a thread that waits for
\* the lock gets it when it is free again and again; the receiver on c.out
\* may stall for ever: there is no fairness on RunSend
FairSpecLock ==
    /\ SpecLock
    /\ WF_vars(RunLocked)
    /\ WF_vars(LkCallCheck \/ LkCallHandle)
    /\ WF_vars(LkFlushBody)
    /\ SF_vars(LkCallLock)
    /\ SF_vars(LkFlushLock)

----------------------------------------------------------------------------
(* Claims about the Concentrator's lock *)

\* the threads inside HandleNewSpan or Flush with the lock taken
InCS ==
    (IF rpc \in {"sheld", "snew", "fheld"} THEN {"run"} ELSE {})
        \cup (IF hpc \in {"held", "new"} THEN {"caller"} ELSE {})
        \cup (IF fpc = "held" THEN {"flusher"} ELSE {})

\* C16: at most one thread is inside HandleNewSpan or Flush with the lock;
\* a Flush that has the lock finds every span accepted so far in the map
\* and no bucket that waits for its span; Run does not hold the lock while
\* it is blocked on c.out, and a call of HandleNewSpan or Flush by another
\* thread returns even if the receiver on c.out never comes.
C16_Locking ==
    /\ [](Cardinality(InCS) <= 1)
    /\ [](InCS = IF lock = "none" THEN {} ELSE {lock})
    /\ []((rpc = "fheld" \/ fpc = "held") =>
            /\ hpc \notin {"held", "new"} /\ rpc \notin {"sheld", "snew"}
            /\ \A ts \in DOMAIN buckets : buckets[ts].Hits # << >>
            /\ TotalHits(buckets) + nOut = nSpans)
    /\ [](rpc = "send" => lock # "run")
    /\ (hpc = "wait") ~> (hpc = "idle")
    /\ (fpc = "lock") ~> (fpc = "idle")

\* Run is blocked on c.out with a bucket to send while another thread is
\* inside HandleNewSpan, its bucket in the map and its span not yet counted
C16_Witness ==
    /\ rpc = "send"
    /\ pending # << >>
    /\ hpc = "new"
    /\ lock = "caller"
    /\ \E ts \in DOMAIN buckets : buckets[ts].Hits = << >>

----------------------------------------------------------------------------
(* The sublayer engine: model.ComputeSublayers and model.SetSublayersOnSpan.
   A span is active from its Start to its End = Start + Duration; between
   two consecutive timestamps of the trace the time goes to the innermost
   active span.  A span without a type counts for the type of its parent,
   as the expected values of TestSublayerNested have it.                   *)

SubSpan(id, parent, start, dur, service, type) ==
    [SpanID |-> id, ParentID |-> parent, Start |-> start, Duration |-> dur,
     Service |-> service, Type |-> type, Metrics |-> << >>]

\* the trace of TestSublayerNested, with now = 0
TestTrace ==
    << SubSpan(1, 0, 42, 1000000000, "mcnulty", "web"),
       SubSpan(2, 1, 100, 200000000, "mcnulty", "sql"),
       SubSpan(3, 2, 150, 199999000, "master-db", "sql"),
       SubSpan(4, 1, 500000000, 500000, "redis", "redis"),
       SubSpan(5, 1, 700000000, 700000, "mcnulty", "") >>

\* start and duration of a span inside a root span that starts at 0
Inside == {p \in (0..SubDur) \X (0..SubDur) : p[1] + p[2] <= SubDur}

\* the traces handed to the engine: the test's, and a root with two spans
\* inside its interval, the second one a child of the root or of the first
SubTraces ==
    {TestTrace} \cup
    { << SubSpan(1, 0, 0, SubDur, "a", "web"),
         SubSpan(2, 1, p[1], p[2], sv1, ty1),
         SubSpan(3, par, q[1], q[2], sv2, ty2) >> :
        p \in Inside, q \in Inside, par \in {1, 2},
        sv1 \in {"a", "b"}, sv2 \in {"a", "b"},
        ty1 \in {"sql", ""}, ty2 \in {"sql", ""} }

SubEnd(s) == s.Start + s.Duration

HasParent(t, i) == \E j \in 1..Len(t) : t[j].SpanID = t[i].ParentID

ParentOf(t, i) == CHOOSE j \in 1..Len(t) : t[j].SpanID = t[i].ParentID

RECURSIVE Depth(_, _)
Depth(t, i) == IF HasParent(t, i) THEN 1 + Depth(t, ParentOf(t, i)) ELSE 0

\* the intervals between two consecutive timestamps of the trace
Intervals(t) ==
    LET T == {t[i].Start : i \in 1..Len(t)} \cup {SubEnd(t[i]) : i \in 1..Len(t)}
    IN  {iv \in T \X T : iv[1] < iv[2] /\ \A c \in T : ~(iv[1] < c /\ c < iv[2])}

\* the spans active all through the interval iv
Active(t, iv) == {i \in 1..Len(t) : t[i].Start <= iv[1] /\ iv[2] <= SubEnd(t[i])}

\* span i is at least as far inside as span j: deeper, or started later
Inner(t, i, j) ==
    \/ Depth(t, i) > Depth(t, j)
    \/ Depth(t, i) = Depth(t, j) /\ t[i].Start > t[j].Start
    \/ Depth(t, i) = Depth(t, j) /\ t[i].Start = t[j].Start /\ t[i].SpanID >= t[j].SpanID

\* an attribution to every active span
AllActive(t, A) == A

\* the span an interval with the active spans A is attributed to
Innermost(t, A) ==
    IF A = {} THEN {} ELSE {CHOOSE i \in A : \A j \in A : Inner(t, i, j)}

ServiceOf(t, i) == t[i].Service

RECURSIVE TypeOf(_, _)
TypeOf(t, i) ==
    IF t[i].Type = "" /\ HasParent(t, i) THEN TypeOf(t, ParentOf(t, i)) ELSE t[i].Type

RECURSIVE SumLengths(_)
\* the total length of the intervals of a set of <<interval, span>> pairs
SumLengths(P) ==
    IF P = {} THEN 0
    ELSE LET p == CHOOSE x \in P : TRUE
         IN  (p[1][2] - p[1][1]) + SumLengths(P \ {p})

\* the duration attributed to each value of the attribute attr of the spans
DurationBy(t, attr) ==
    LET P == {p \in Intervals(t) \X (1..Len(t)) : p[2] \in Innermost(t, Active(t, p[1]))}
    IN  [v \in {attr[p[2]] : p \in P} |-> SumLengths({p \in P : attr[p[2]] = v})]

SublayerValue(metric, tagName, tagValue, value) ==
    [Metric |-> metric, TagName |-> tagName, TagValue |-> tagValue, Value |-> value]

ComputeSublayers(t) ==
    LET byService == DurationBy(t, [i \in 1..Len(t) |-> ServiceOf(t, i)])
        byType == DurationBy(t, [i \in 1..Len(t) |-> TypeOf(t, i)])
    IN  {SublayerValue("_sublayers.duration.by_service", "sublayer_service", v, byService[v]) :
            v \in DOMAIN byService}
        \cup {SublayerValue("_sublayers.duration.by_type", "sublayer_type", v, byType[v]) :
                 v \in DOMAIN byType}
        \cup {SublayerValue("_sublayers.span_count", "", "", Len(t))}

\* the key of a value in the metrics map: <metric>.<tag_name>:<tag_value>,
\* the metric alone for the span count
MetricKey(v) ==
    IF v.TagName = "" THEN v.Metric
    ELSE v.Metric \o "." \o v.TagName \o ":" \o v.TagValue

SetSublayersOnSpan(span, values) ==
    [span EXCEPT !.Metrics =
        [k \in DOMAIN @ \cup {MetricKey(v) : v \in values} |->
            IF \E v \in values : MetricKey(v) = k
            THEN (CHOOSE v \in values : MetricKey(v) = k).Value
            ELSE @[k]]]

\* tr.GetRoot(): the span without a parent
GetRoot(t) == CHOOSE i \in 1..Len(t) : t[i].ParentID = 0

subFrame == <<concVars, runVars, backVars, lifeVars, muVars, lockVars>>

ReceiveTrace ==
    /\ spc = "none"
    /\ tr' \in SubTraces
    /\ spc' = "trace"
    /\ UNCHANGED <<sublayers, subFrame>>

CallComputeSublayers ==
    /\ spc = "trace"
    /\ sublayers' = ComputeSublayers(tr)
    /\ spc' = "computed"
    /\ UNCHANGED <<tr, subFrame>>

CallSetSublayersOnSpan ==
    /\ spc = "computed"
    /\ tr' = [tr EXCEPT ![GetRoot(tr)] = SetSublayersOnSpan(@, sublayers)]
    /\ spc' = "set"
    /\ UNCHANGED <<sublayers, subFrame>>

NextSublayers ==
    \/ ReceiveTrace
    \/ CallComputeSublayers
    \/ CallSetSublayersOnSpan

SpecSublayers == InitRun /\ [][NextSublayers]_vars

----------------------------------------------------------------------------
(* Claims about the sublayer engine *)

\* the values TestSublayerNested expects from ComputeSublayers
TestSublayers ==
    { SublayerValue("_sublayers.duration.by_service", "sublayer_service", "master-db", 199999000),
      SublayerValue("_sublayers.duration.by_service", "sublayer_service", "mcnulty",
                    1000000000 - 199999000 - 500000),
      SublayerValue("_sublayers.duration.by_service", "sublayer_service", "redis", 500000),
      SublayerValue("_sublayers.duration.by_type", "sublayer_type", "redis", 500000),
      SublayerValue("_sublayers.duration.by_type", "sublayer_type", "sql", 200000000),
      SublayerValue("_sublayers.duration.by_type", "sublayer_type", "web",
                    1000000000 - 200000000 - 500000),
      SublayerValue("_sublayers.span_count", "", "", 5) }

\* the metrics TestSublayerNested expects on the root span
TestMetrics ==
    [k \in {"_sublayers.span_count"} |-> 5]
    @@ [k \in {"_sublayers.duration.by_type.sublayer_type:web"} |-> 1000000000 - 200000000 - 500000]
    @@ [k \in {"_sublayers.duration.by_type.sublayer_type:sql"} |-> 200000000]
    @@ [k \in {"_sublayers.duration.by_type.sublayer_type:redis"} |-> 500000]
    @@ [k \in {"_sublayers.duration.by_service.sublayer_service:mcnulty"} |->
            1000000000 - 199999000 - 500000]
    @@ [k \in {"_sublayers.duration.by_service.sublayer_service:master-db"} |-> 199999000]
    @@ [k \in {"_sublayers.duration.by_service.sublayer_service:redis"} |-> 500000]

RECURSIVE SumValues(_)
\* the sum of the values of a set of sublayer values
SumValues(V) ==
    IF V = {} THEN 0
    ELSE LET v == CHOOSE x \in V : TRUE IN v.Value + SumValues(V \ {v})

\* C18: for a trace whose spans lie inside the root's interval, the by_type
\* durations add up to the root's duration and so do the by_service
\* durations (1e9 for the test's trace); span_count is the number of
\* spans; after SetSublayersOnSpan the root holds one metric per value and
\* no other span holds any; on the test's trace the values and the
\* metrics are the test's.
C18_SublayerConservation ==
    /\ spc \in {"computed", "set"} =>
          /\ SumValues({v \in sublayers : v.Metric = "_sublayers.duration.by_type"})
                = tr[GetRoot(tr)].Duration
          /\ SumValues({v \in sublayers : v.Metric = "_sublayers.duration.by_service"})
                = tr[GetRoot(tr)].Duration
          /\ {v.Value : v \in {x \in sublayers : x.Metric = "_sublayers.span_count"}}
                = {Len(tr)}
          /\ Len(tr) = 5 =>
                /\ sublayers = TestSublayers
                /\ tr[GetRoot(tr)].Duration = 1000000000
    /\ spc = "set" =>
          /\ \A i \in 1..Len(tr) : i # GetRoot(tr) => tr[i].Metrics = << >>
          /\ Cardinality(DOMAIN tr[GetRoot(tr)].Metrics) = Cardinality(sublayers)
          /\ \A v \in sublayers : tr[GetRoot(tr)].Metrics[MetricKey(v)] = v.Value
          /\ Len(tr) = 5 => tr[GetRoot(tr)].Metrics = TestMetrics
    /\ spc \in {"trace", "computed"} => \A i \in 1..Len(tr) : tr[i].Metrics = << >>

\* the test's trace has its sublayers set on its root
C18_Witness ==
    /\ spc = "set"
    /\ Len(tr) = 5
    /\ Cardinality(sublayers) = 7
    /\ Cardinality(DOMAIN tr[1].Metrics) = 7

====
